---- MODULE Spec2Model ----
(***************************************************************************)
(* A model of the mandelbrot renderer (src/src/main.rs): the escape-time   *)
(* evaluator, the pixel-to-point mapping, the argument parsers, the band   *)
(* renderer and main's sequence of render, write and banded parallel       *)
(* render.                                                                 *)
(*                                                                         *)
(* f64 is modelled as a binary floating-point format of the same shape     *)
(* with a reduced precision: a value is an integer count of units of       *)
(* 2^-FracBits (the spacing of the lowest binade), it is representable     *)
(* when it has at most Precision significant bits, and every arithmetic    *)
(* operation rounds its exact result to the nearest representable value,   *)
(* ties to even.  With Precision = 53 these are the operations of IEEE 754  *)
(* binary64 on the values in range; infinities and NaN are outside the     *)
(* modelled range.                                                         *)
(***************************************************************************)
EXTENDS Integers, Sequences, FiniteSets, TLC

\* ------------------------------------------------------------------ bounds
\* Significant bits of the modelled float format (f64 has 53).
Precision == 8
\* Fraction bits of the lowest binade: one unit is 2^-FracBits.
FracBits == 8
\* Longest string drawn as an input of the parsers.
MaxLen == 4
\* Largest image side drawn as an input of pixel_to_point.
MaxSide == 4

\* ------------------------------------------------------- program constants
\* main.rs:25  const THREADS: u8 = 8
THREADS == 8
\* main.rs:117  escape_time(point, 255)
RenderLimit == 255

\* ------------------------------------------------------------ f64 arithmetic
RECURSIVE Pow2(_)
Pow2(n) == IF n = 0 THEN 1 ELSE 2 * Pow2(n - 1)

\* 1.0 in units.
One == Pow2(FracBits)

\* The spacing of representable values around the magnitude q (in units).
RECURSIVE Spacing(_)
Spacing(q) == IF q < Pow2(Precision) THEN 1 ELSE 2 * Spacing(q \div 2)

\* The magnitude n/d (n >= 0, d > 0) rounded to the nearest representable
\* value, ties to even.
RoundMag(n, d) ==
    LET s == Spacing(n \div d)
        k == d * s
        m == n \div k
        r == n % k
    IN  IF 2 * r > k \/ (2 * r = k /\ m % 2 = 1) THEN (m + 1) * s ELSE m * s

\* The rational n/d (d > 0) rounded to the nearest representable value.
Round(n, d) == IF n < 0 THEN -RoundMag(-n, d) ELSE RoundMag(n, d)

\* f64 + - * / on values in units.
FAdd(a, b) == Round(a + b, 1)
FSub(a, b) == Round(a - b, 1)
FMul(a, b) == Round(a * b, One)
FDiv(a, b) == IF b < 0 THEN Round(-(a * One), -b) ELSE Round(a * One, b)

\* `n as f64` for a usize n.
AsF64(n) == Round(n * One, 1)

\* ------------------------------------------------------------ Complex64
\* cmplx!(re, im)
cmplx(re, im) == [re |-> re, im |-> im]

\* Complex64 multiplication and addition (num_complex).
CMul(a, b) == cmplx(FSub(FMul(a.re, b.re), FMul(a.im, b.im)),
                    FAdd(FMul(a.re, b.im), FMul(a.im, b.re)))
CAdd(a, b) == cmplx(FAdd(a.re, b.re), FAdd(a.im, b.im))
norm_sqr(z) == FAdd(FMul(z.re, z.re), FMul(z.im, z.im))

\* Option<T>
None == [some |-> FALSE]
Some(v) == [some |-> TRUE, val |-> v]

\* ------------------------------------------------------------ escape_time
\* The loop state of `for i in 0..limit`: the next index i, the current z,
\* and the value returned once the loop has returned.
escape_start == [i |-> 0, z |-> cmplx(0, 0), done |-> FALSE, res |-> None]

\* escape_step with the comparison of line 70 weakened to >=.
escape_step_ge(c, limit, s) ==
    IF s.done THEN s
    ELSE IF s.i >= limit THEN [s EXCEPT !.done = TRUE, !.res = None]
    ELSE LET z1 == CAdd(CMul(s.z, s.z), c)
         IN  IF norm_sqr(z1) >= 4 * One
             THEN [s EXCEPT !.z = z1, !.done = TRUE, !.res = Some(s.i)]
             ELSE [s EXCEPT !.z = z1, !.i = s.i + 1]

\* One iteration of the loop body (lines 69-72), or the fall-through to
\* None (line 75) when the range is exhausted.
escape_step(c, limit, s) ==
    IF s.done THEN s
    ELSE IF s.i >= limit THEN [s EXCEPT !.done = TRUE, !.res = None]
    ELSE LET z1 == CAdd(CMul(s.z, s.z), c)
         IN  IF norm_sqr(z1) > 4 * One
             THEN [s EXCEPT !.z = z1, !.done = TRUE, !.res = Some(s.i)]
             ELSE [s EXCEPT !.z = z1, !.i = s.i + 1]

\* n iterations of the loop from state s (halving keeps the evaluation
\* shallow).
RECURSIVE escape_run(_, _, _, _)
escape_run(c, limit, n, s) ==
    IF s.done \/ n = 0 THEN s
    ELSE IF n = 1 THEN escape_step(c, limit, s)
    ELSE escape_run(c, limit, n - (n \div 2), escape_run(c, limit, n \div 2, s))

escape_time(c, limit) == escape_run(c, limit, limit + 1, escape_start).res

\* ---------------------------------------------------------- pixel_to_point
\* pixel_to_point with the sign of the imaginary offset of line 107 turned.
pixel_to_point_up(bounds, pixel, upper_l, lower_r) ==
    LET w == FSub(lower_r.re, upper_l.re)
        h == FSub(upper_l.im, lower_r.im)
        re == FAdd(upper_l.re, FDiv(FMul(AsF64(pixel[1]), w), AsF64(bounds[1])))
        im == FAdd(upper_l.im, FDiv(FMul(AsF64(pixel[2]), h), AsF64(bounds[2])))
    IN  cmplx(re, im)

pixel_to_point(bounds, pixel, upper_l, lower_r) ==
    LET w == FSub(lower_r.re, upper_l.re)
        h == FSub(upper_l.im, lower_r.im)
        re == FAdd(upper_l.re, FDiv(FMul(AsF64(pixel[1]), w), AsF64(bounds[1])))
        im == FSub(upper_l.im, FDiv(FMul(AsF64(pixel[2]), h), AsF64(bounds[2])))
    IN  cmplx(re, im)

\* ------------------------------------------------------------------ render
\* How a thread stands: running, exited with a status, or panicked (a failed
\* assertion, `expect` or `unwrap`) with a message.
Running == [kind |-> "running", code |-> 0, msg |-> ""]
Exit(code) == [kind |-> "exit", code |-> code, msg |-> ""]
Panic(msg) == [kind |-> "panic", code |-> 101, msg |-> msg]

\* What render leaves: the buffer, or the panic of its assertion.
Rendered(px) == [ok |-> TRUE, px |-> px, msg |-> ""]
RenderPanic(msg) == [ok |-> FALSE, px |-> <<>>, msg |-> msg]

\* render_pixel storing the count itself instead of 255 - count.
render_pixel_count(bounds, col, row, upper_l, lower_r) ==
    LET point == pixel_to_point(bounds, <<col, row>>, upper_l, lower_r)
        t == escape_time(point, RenderLimit)
    IN  IF t.some THEN t.val % 256 ELSE 0

\* The byte stored for pixel (col, row) (lines 116-120); `count as u8`
\* truncates to 8 bits.
render_pixel(bounds, col, row, upper_l, lower_r) ==
    LET point == pixel_to_point(bounds, <<col, row>>, upper_l, lower_r)
        t == escape_time(point, RenderLimit)
    IN  IF t.some THEN 255 - (t.val % 256) ELSE 0

\* render on a buffer of length len: the buffer it leaves (index k of the
\* sequence is pixel k - 1), or the panic of the assertion of line 113.
render(len, bounds, upper_l, lower_r) ==
    IF len # bounds[1] * bounds[2]
    THEN RenderPanic("assertion failed: pixels.len() == bounds.0 * bounds.1")
    ELSE Rendered([k \in 1..len |->
            render_pixel(bounds, (k - 1) % bounds[1], (k - 1) \div bounds[1],
                         upper_l, lower_r)])

\* ------------------------------------------------------------ parse_pair
DigitChars == <<"0", "1", "2", "3", "4", "5", "6", "7", "8", "9">>
Digits == {DigitChars[k] : k \in 1..10}
DigitOf(ch) == (CHOOSE k \in 1..10 : DigitChars[k] = ch) - 1

Ok(v) == [ok |-> TRUE, val |-> v]
Err == [ok |-> FALSE]

RECURSIVE Pow10(_)
Pow10(n) == IF n = 0 THEN 1 ELSE 10 * Pow10(n - 1)

\* The decimal value of a string of digits (0 for the empty string).
RECURSIVE DecimalValue(_)
DecimalValue(s) ==
    IF Len(s) = 0 THEN 0
    ELSE 10 * DecimalValue(SubSeq(s, 1, Len(s) - 1)) + DigitOf(s[Len(s)])

AllDigits(s) == \A k \in 1..Len(s) : s[k] \in Digits

\* usize::from_str: an optional '+', then one or more digits.
from_str_usize(s) ==
    LET body == IF Len(s) > 0 /\ s[1] = "+" THEN Tail(s) ELSE s
    IN  IF Len(body) > 0 /\ AllDigits(body) THEN Ok(DecimalValue(body)) ELSE Err

\* f64::from_str on decimal notation: an optional sign, digits with an
\* optional point, at least one digit; the value is the nearest float.
from_str_f64(s) ==
    LET signed == Len(s) > 0 /\ s[1] \in {"+", "-"}
        body == IF signed THEN Tail(s) ELSE s
        dots == {k \in 1..Len(body) : body[k] = "."}
        dot == IF dots = {} THEN Len(body) + 1 ELSE CHOOSE k \in dots : TRUE
        int == SubSeq(body, 1, dot - 1)
        frac == SubSeq(body, dot + 1, Len(body))
        mag == DecimalValue(int) * Pow10(Len(frac)) + DecimalValue(frac)
        v == Round(mag * One, Pow10(Len(frac)))
    IN  IF Cardinality(dots) <= 1 /\ AllDigits(int) /\ AllDigits(frac)
           /\ Len(int) + Len(frac) > 0
        THEN Ok(IF signed /\ s[1] = "-" THEN -v ELSE v)
        ELSE Err

\* T::from_str for the two instantiations the program uses.
from_str(T, s) == IF T = "usize" THEN from_str_usize(s) ELSE from_str_f64(s)

\* s.find(separator): the 0-based index of the first occurrence.
find(s, separator) ==
    LET hits == {k \in 1..Len(s) : s[k] = separator}
    IN  IF hits = {} THEN None
        ELSE Some((CHOOSE k \in hits : \A j \in hits : k <= j) - 1)

\* &s[a..b]
Slice(s, a, b) == SubSeq(s, a + 1, b)

\* parse_pair with the right field sliced from idx instead of idx + 1.
parse_pair_from_idx(T, s, separator) ==
    LET f == find(s, separator)
    IN  IF ~f.some THEN None
        ELSE LET left == from_str(T, Slice(s, 0, f.val))
                 right == from_str(T, Slice(s, f.val, Len(s)))
             IN  IF left.ok /\ right.ok THEN Some(<<left.val, right.val>>)
                 ELSE None

parse_pair(T, s, separator) ==
    LET f == find(s, separator)
    IN  IF ~f.some THEN None
        ELSE LET left == from_str(T, Slice(s, 0, f.val))
                 right == from_str(T, Slice(s, f.val + 1, Len(s)))
             IN  IF left.ok /\ right.ok THEN Some(<<left.val, right.val>>)
                 ELSE None

parse_complex(s) ==
    LET p == parse_pair("f64", s, ",")
    IN  IF p.some THEN Some(cmplx(p.val[1], p.val[2])) ELSE None

\* ------------------------------------------------------------------ state
\* call, ret: a call of one of the functions above and what it returned.
\* The rest is the state of a run of main: the arguments, where main is,
\* its locals (bounds, u_l, l_r, pixels, rows_per_band, bands), the band
\* workers of the scope, and what the run did to the outside (the image
\* file, standard error, the exit status).  invoked is the set of
\* operations started so far and writers[k] the set of band workers that
\* have stored into pixels[k].
VARIABLES call, ret, args, pc, bounds, u_l, l_r, pixels, rows_per_band, bands,
          workers, file, stderr, status, invoked, writers

mainVars == <<args, pc, bounds, u_l, l_r, pixels, rows_per_band, bands,
              workers, file, stderr, status, invoked, writers>>

vars == <<call, ret, mainVars>>

\* No run of main: the state of the specifications of single calls.
NoMain ==
    /\ args = <<>> /\ pc = "none" /\ bounds = <<0, 0>>
    /\ u_l = cmplx(0, 0) /\ l_r = cmplx(0, 0) /\ pixels = <<>>
    /\ rows_per_band = 0 /\ bands = <<>> /\ workers = <<>>
    /\ file = <<>> /\ stderr = <<>> /\ status = Running
    /\ invoked = {} /\ writers = <<>>

\* A call of one of the functions, and what it returned.
Pending == [done |-> FALSE]
Returned(v) == [done |-> TRUE, val |-> v]

\* ------------------------------------------------- escape_time, as a call
\* The points c = (re, im) with both coordinates on a quarter-unit grid
\* between -2.5 and 2.5, and the iteration limits tried.
EscapeCoords == {k * (One \div 4) : k \in -10..10}
EscapeLimits == {0, 1, 2, 3, 8, RenderLimit}

InitEscape ==
    /\ call \in [fn : {"escape_time"}, c : [re : EscapeCoords, im : EscapeCoords],
                 limit : EscapeLimits]
    /\ ret = Pending
    /\ NoMain

CallEscape ==
    /\ call.fn = "escape_time"
    /\ ~ret.done
    /\ ret' = Returned(escape_time(call.c, call.limit))
    /\ UNCHANGED <<call, mainVars>>

SpecEscape == InitEscape /\ [][CallEscape]_vars

\* ---------------------------------------------- pixel_to_point, as a call
\* Corner coordinates: the nearest floats to a few decimal values.
PointCoords == {Round(n * One, 10) : n \in {-20, -12, -10, -5, 1, 3, 7, 10}}

\* The call of the unit test (lines 164-168).
TestPointCall ==
    [fn |-> "pixel_to_point", bounds |-> <<100, 100>>, pixel |-> <<25, 75>>,
     upper_l |-> cmplx(-One, One), lower_r |-> cmplx(One, -One)]

PointCalls ==
    {[fn |-> "pixel_to_point", bounds |-> <<w, h>>, pixel |-> <<col, row>>,
      upper_l |-> cmplx(a, b), lower_r |-> cmplx(b, a)] :
        w \in 1..MaxSide, h \in 1..MaxSide, col \in 0..MaxSide, row \in 0..MaxSide,
        a \in PointCoords, b \in PointCoords}

InitPoint ==
    /\ call \in {q \in PointCalls : q.pixel[1] <= q.bounds[1] /\ q.pixel[2] <= q.bounds[2]}
                \cup {TestPointCall}
    /\ ret = Pending
    /\ NoMain

CallPoint ==
    /\ call.fn = "pixel_to_point"
    /\ ~ret.done
    /\ ret' = Returned(pixel_to_point(call.bounds, call.pixel, call.upper_l, call.lower_r))
    /\ UNCHANGED <<call, mainVars>>

SpecPoint == InitPoint /\ [][CallPoint]_vars

\* -------------------------------------------------------- render, as a call
\* Corner pairs (upper left, lower right), in tenths.
RenderCorners ==
    {<<cmplx(Round(a[1] * One, 10), Round(a[2] * One, 10)),
       cmplx(Round(a[3] * One, 10), Round(a[4] * One, 10))>> :
        a \in {<<-20, 10, 10, -10>>, <<-15, 1, -13, -1>>, <<-8, 2, -7, 1>>,
               <<-5, 10, 5, -10>>, <<20, 20, 30, 10>>, <<-12, 4, -10, 2>>}}

InitRender ==
    /\ call \in [fn : {"render"}, len : 0..(MaxSide + 2), bounds : (0..2) \X (0..MaxSide),
                 corners : RenderCorners]
    /\ ret = Pending
    /\ NoMain

CallRender ==
    /\ call.fn = "render"
    /\ ~ret.done
    /\ ret' = Returned(render(call.len, call.bounds, call.corners[1], call.corners[2]))
    /\ UNCHANGED <<call, mainVars>>

SpecRender == InitRender /\ [][CallRender]_vars

\* ------------------------------------- parse_pair, parse_complex, as calls
Alphabet == {"1", "5", ".", "-", ",", "x"}
Separators == {",", "x"}
Types == {"usize", "f64"}

\* The strings of the unit tests (lines 147-153 and 158-160).
TestStrings ==
    { <<>>, <<"1", "0">>, <<"1", "0", "x", "2", "0">>,
      <<"4", "0", "0", ".", "0", "x">>, <<"1", "0", ",", "2", "0">>,
      <<"4", "0", "0", "x", "6", "0", "0">>,
      <<"4", "0", "0", ".", "0", "x", "6", "0", "0", ".", "5">>,
      <<"1", ".", "2", "5", ",", "-", "0", ".", "0", "6", "2", "5">>,
      <<"0", ".", "0", ",", "0", ".", "0">>,
      <<",", "-", "1", ".", "0", "2", "5", "6">> }

Strings == UNION {[1..n -> Alphabet] : n \in 0..MaxLen} \cup TestStrings

InitParse ==
    /\ call \in [fn : {"parse_pair"}, T : Types, s : Strings, separator : Separators]
                \cup [fn : {"parse_complex"}, s : Strings]
    /\ ret = Pending
    /\ NoMain

CallParsePair ==
    /\ call.fn = "parse_pair"
    /\ ~ret.done
    /\ ret' = Returned(parse_pair(call.T, call.s, call.separator))
    /\ UNCHANGED <<call, mainVars>>

CallParseComplex ==
    /\ call.fn = "parse_complex"
    /\ ~ret.done
    /\ ret' = Returned(parse_complex(call.s))
    /\ UNCHANGED <<call, mainVars>>

SpecParse == InitParse /\ [][CallParsePair \/ CallParseComplex]_vars

\* -------------------------------------------------------------------- main
\* main.rs:26-27 and 33: the two lines written to standard error.
MSG1 == "USAGE: mandelbrot <file> <pixels> <upper_left> <lower_right>"
MSG2 == "mandel.png 4000x3000 -1.20,0.35 -1,0.20"
UsageLines(pname) == <<<<MSG1>>, <<"EXAMPLE:", pname, MSG2>>>>

Min(a, b) == IF a < b THEN a ELSE b

\* chunks_mut with chunks that start one element early, so that
\* neighbours share an element.
chunks_mut_overlap(len, size) ==
    [i \in 1..((len + size - 1) \div size) |->
        [start |-> IF i = 1 THEN 0 ELSE (i - 1) * size - 1,
         len |-> Min(size, len - (i - 1) * size)]]

\* pixels.chunks_mut(size) on a buffer of length len, size > 0: consecutive
\* chunks of `size` elements, the last one holding what is left.
chunks_mut(len, size) ==
    [i \in 1..((len + size - 1) \div size) |->
        [start |-> (i - 1) * size, len |-> Min(size, len - (i - 1) * size)]]

\* Lines 31-35: a wrong argument count prints the usage and exits with 1.
Usage ==
    /\ pc = "start"
    /\ Len(args) # 5
    /\ stderr' = stderr \o UsageLines(args[1])
    /\ status' = Exit(1)
    /\ pc' = "exited"
    /\ UNCHANGED <<call, ret, args, bounds, u_l, l_r, pixels, rows_per_band, bands,
                   workers, file, invoked, writers>>

\* ParseArgs with the lower right corner defaulted instead of expected.
ParseArgs_default_corner ==
    /\ pc = "start"
    /\ Len(args) = 5
    /\ LET b == parse_pair("usize", args[3], "x")
           ul == parse_complex(args[4])
           lr == parse_complex(args[5])
           msg == IF ~b.some THEN "Error parsing image dimensions"
                  ELSE IF ~ul.some THEN "Error parsing upper left corner point"
                  ELSE "none"
       IN  IF msg # "none"
           THEN /\ status' = Panic(msg)
                /\ pc' = "exited"
                /\ UNCHANGED <<bounds, u_l, l_r, pixels>>
           ELSE /\ bounds' = b.val
                /\ u_l' = ul.val
                /\ l_r' = IF lr.some THEN lr.val ELSE cmplx(0, 0)
                /\ pixels' = [k \in 1..(b.val[1] * b.val[2]) |-> 0]
                /\ pc' = "render"
                /\ UNCHANGED status
    /\ UNCHANGED <<call, ret, args, rows_per_band, bands, workers, file, stderr,
                   invoked, writers>>

\* Lines 37-40: the three `expect`s, in order, then the zeroed buffer.
ParseArgs ==
    /\ pc = "start"
    /\ Len(args) = 5
    /\ LET b == parse_pair("usize", args[3], "x")
           ul == parse_complex(args[4])
           lr == parse_complex(args[5])
           msg == IF ~b.some THEN "Error parsing image dimensions"
                  ELSE IF ~ul.some THEN "Error parsing upper left corner point"
                  ELSE IF ~lr.some THEN "Error parsing lower right corner point"
                  ELSE "none"
       IN  IF msg # "none"
           THEN /\ status' = Panic(msg)
                /\ pc' = "exited"
                /\ UNCHANGED <<bounds, u_l, l_r, pixels>>
           ELSE /\ bounds' = b.val
                /\ u_l' = ul.val
                /\ l_r' = lr.val
                /\ pixels' = [k \in 1..(b.val[1] * b.val[2]) |-> 0]
                /\ pc' = "render"
                /\ UNCHANGED status
    /\ UNCHANGED <<call, ret, args, rows_per_band, bands, workers, file, stderr,
                   invoked, writers>>

\* Line 42: the sequential render of the whole buffer.
RenderFull ==
    /\ pc = "render"
    /\ invoked' = invoked \cup {"render"}
    /\ LET r == render(Len(pixels), bounds, u_l, l_r)
       IN  IF ~r.ok
           THEN status' = Panic(r.msg) /\ pc' = "exited" /\ UNCHANGED pixels
           ELSE pixels' = r.px /\ pc' = "write" /\ UNCHANGED status
    /\ UNCHANGED <<call, ret, args, bounds, u_l, l_r, rows_per_band, bands, workers,
                   file, stderr, writers>>

\* Line 43: write_image, which the file system or the encoder may fail.
WriteImage ==
    /\ pc = "write"
    /\ invoked' = invoked \cup {"write_image"}
    /\ \E ok \in BOOLEAN :
          IF ok
          THEN /\ file' = Append(file, [name |-> args[2], pixels |-> pixels,
                                        width |-> bounds[1], height |-> bounds[2]])
               /\ pc' = "partition"
               /\ UNCHANGED status
          ELSE /\ status' = Panic("Error writing PNG file")
               /\ pc' = "exited"
               /\ UNCHANGED file
    /\ UNCHANGED <<call, ret, args, bounds, u_l, l_r, pixels, rows_per_band, bands,
                   workers, stderr, writers>>

\* Lines 45-48: rows_per_band and the bands; chunks_mut panics on a chunk
\* size of zero.
Partition ==
    /\ pc = "partition"
    /\ rows_per_band' = bounds[2] \div (THREADS + 1)
    /\ IF rows_per_band' * bounds[1] = 0
       THEN /\ status' = Panic("chunk size must be non-zero")
            /\ pc' = "exited"
            /\ UNCHANGED <<bands, writers>>
       ELSE /\ bands' = chunks_mut(Len(pixels), rows_per_band' * bounds[1])
            /\ writers' = [k \in 1..Len(pixels) |-> {}]
            /\ pc' = "spawn"
            /\ UNCHANGED status
    /\ UNCHANGED <<call, ret, args, bounds, u_l, l_r, pixels, workers, file, stderr,
                   invoked>>

\* Lines 52-59, iteration i of the loop on `band`: the band's geometry and
\* the worker spawned for it.  The closure captures the band and the values
\* computed here; render computes each byte from these alone, so the bytes
\* the worker is going to store (out) are fixed from here on.
band_worker(i, band) ==
    LET top == rows_per_band * i
        height == band.len \div bounds[1]
        band_bounds == <<bounds[1], height>>
        band_upper_left == pixel_to_point(bounds, <<0, top>>, u_l, l_r)
        band_lower_right ==
            pixel_to_point(bounds, <<bounds[1], top + height>>, u_l, l_r)
    IN  [band |-> band, top |-> top, bounds |-> band_bounds,
         upper_l |-> band_upper_left, lower_r |-> band_lower_right,
         out |-> render(band.len, band_bounds, band_upper_left, band_lower_right),
         next |-> 0, state |-> "running"]

\* Lines 50-60: the scope's closure, which spawns one worker per band.  The
\* loop only reads bounds, u_l and l_r, which no worker writes, so its
\* iterations commute with the workers' steps and are taken at once.
SpawnBands ==
    /\ pc = "spawn"
    /\ workers' = [i \in 1..Len(bands) |-> band_worker(i - 1, bands[i])]
    /\ invoked' = invoked \cup (IF Len(bands) > 0 THEN {"spawn"} ELSE {})
    /\ pc' = "join"
    /\ UNCHANGED <<call, ret, args, bounds, u_l, l_r, pixels, rows_per_band, bands,
                   file, stderr, status, writers>>

\* Line 58, one step of worker j: render's assertion on entry, then the
\* store of one pixel of its band.
WorkerStep(j) ==
    /\ j \in 1..Len(workers)
    /\ workers[j].state = "running"
    /\ LET wk == workers[j]
       IN  IF ~wk.out.ok
           THEN /\ workers' = [workers EXCEPT ![j].state = "panicked"]
                /\ UNCHANGED <<pixels, writers>>
           ELSE LET k == wk.band.start + wk.next + 1
                IN  /\ pixels' = [pixels EXCEPT ![k] = wk.out.px[wk.next + 1]]
                    /\ writers' = [writers EXCEPT ![k] = @ \cup {j}]
                    /\ workers' = [workers EXCEPT
                          ![j].next = wk.next + 1,
                          ![j].state = IF wk.next + 1 = wk.band.len
                                       THEN "finished" ELSE "running"]
    /\ UNCHANGED <<call, ret, args, pc, bounds, u_l, l_r, rows_per_band, bands, file,
                   stderr, status, invoked>>

\* Lines 61-62: the scope has joined every worker; a worker's panic is the
\* scope's error, which unwrap turns into main's panic.
Join ==
    /\ pc = "join"
    /\ \A j \in 1..Len(workers) : workers[j].state # "running"
    /\ IF \E j \in 1..Len(workers) : workers[j].state = "panicked"
       THEN status' = Panic("a scoped thread panicked") /\ pc' = "exited"
       ELSE status' = Exit(0) /\ pc' = "done"
    /\ UNCHANGED <<call, ret, args, bounds, u_l, l_r, pixels, rows_per_band, bands,
                   workers, file, stderr, invoked, writers>>

\* The command lines tried.
Prog == "mandelbrot"
OutFile == "mandel.png"
CornersA == <<<<"-", "1", ".", "5", ",", "0", ".", "1">>,
              <<"-", "1", ".", "3", ",", "-", "0", ".", "1">>>>
CornersB == <<<<"-", "2", ",", "1">>, <<"1", ",", "-", "1">>>>
GoodDims == { <<"1", "x", "5">>, <<"1", "x", "9">>, <<"1", "x", "1", "0">> }
BadDims == { <<"x", "9">>, <<"1", "x">>, <<"1", ",", "9">>, <<"1", "x", "-", "9">> }
BadCorner == <<"1", ".", "3", "-", "0", ".", "1">>

MainArgs ==
    {<<Prog, OutFile, d, c[1], c[2]>> : d \in GoodDims, c \in {CornersA, CornersB}}
    \cup {<<Prog, OutFile, <<"1", "x", "1", "8">>, CornersA[1], CornersA[2]>>,
          <<Prog, OutFile, <<"2", "x", "9">>, CornersB[1], CornersB[2]>>}
    \cup {<<Prog, OutFile, d, CornersA[1], CornersA[2]>> : d \in BadDims}
    \cup {<<Prog, OutFile, <<"1", "x", "9">>, BadCorner, CornersA[2]>>,
          <<Prog, OutFile, <<"1", "x", "9">>, CornersA[1], BadCorner>>,
          <<Prog, OutFile, <<"x">>, BadCorner, BadCorner>>}
    \cup {<<Prog>>, <<Prog, OutFile>>,
          <<Prog, OutFile, <<"1", "x", "9">>, CornersA[1]>>,
          <<Prog, OutFile, <<"1", "x", "9">>, CornersA[1], CornersA[2], CornersA[2]>>}

Init ==
    /\ call = [fn |-> "main"]
    /\ ret = Pending
    /\ args \in MainArgs
    /\ pc = "start"
    /\ bounds = <<0, 0>>
    /\ u_l = cmplx(0, 0)
    /\ l_r = cmplx(0, 0)
    /\ pixels = <<>>
    /\ rows_per_band = 0
    /\ bands = <<>>
    /\ workers = <<>>
    /\ file = <<>>
    /\ stderr = <<>>
    /\ status = Running
    /\ invoked = {}
    /\ writers = <<>>

Next ==
    \/ Usage
    \/ ParseArgs
    \/ RenderFull
    \/ WriteImage
    \/ Partition
    \/ SpawnBands
    \/ \E j \in 1..(2 * (THREADS + 1)) : WorkerStep(j)
    \/ Join

Spec == Init /\ [][Next]_vars

\* ============================================================= properties

Max(a, b) == IF a < b THEN b ELSE a
Abs(x) == IF x < 0 THEN -x ELSE x

\* x (in units) is a value of the float format.
Representable(x) == Round(x, 1) = x

\* The iterates z1, z2, ... of z -> z*z + c from z0 = 0, up to and including
\* the first one whose squared norm exceeds 4, and at most `limit` of them;
\* n more iterates are added to seq.
Escaped(z) == norm_sqr(z) > 4 * One
RECURSIVE OrbitExtend(_, _, _)
OrbitExtend(c, seq, n) ==
    IF n = 0 \/ (Len(seq) > 0 /\ Escaped(seq[Len(seq)])) THEN seq
    ELSE IF n = 1
         THEN LET z == IF Len(seq) = 0 THEN cmplx(0, 0) ELSE seq[Len(seq)]
              IN  Append(seq, CAdd(CMul(z, z), c))
    ELSE OrbitExtend(c, OrbitExtend(c, seq, n \div 2), n - (n \div 2))

Orbit(c, limit) == OrbitExtend(c, <<>>, limit)

\* The iteration indices i < limit (iteration i produces the iterate i + 1)
\* at which the squared norm exceeds 4, up to the first one.
EscapeIndices(c, limit) ==
    LET o == Orbit(c, limit)
    IN  {i \in 0..(limit - 1) : i < Len(o) /\ Escaped(o[i + 1])}

\* ---- C6
\* C6: escape_time(c, limit) returns Some(i) exactly when i is the smallest
\* iteration index below limit at which the squared norm of z exceeds 4, and
\* None, which differs from every Some(i), exactly when there is no such
\* index; c = 0 gives None for every limit.
C6_EscapeTimeIsFirstEscape ==
    (call.fn = "escape_time" /\ ret.done) =>
        LET E == EscapeIndices(call.c, call.limit)
            r == ret.val
        IN  /\ r.some <=> E # {}
            /\ r.some => r.val \in E /\ \A j \in E : r.val <= j
            /\ ~r.some => r = None /\ r # Some(0)
            /\ call.c = cmplx(0, 0) => r = None

\* A point that escapes at the third iteration, with iterations to spare.
C6_Witness ==
    /\ call.fn = "escape_time" /\ ret.done
    /\ ret.val = Some(2) /\ call.limit = RenderLimit

\* ---- C7
\* C7: after render on a buffer of length bounds.0 * bounds.1, the pixel at
\* row * W + col holds 0 if its point does not escape within 255 iterations
\* and 255 - count if it escapes at iteration count; count is at most 254,
\* so an escaping point gets a value in 1..255 (255 for the first iteration)
\* and a stored 0 always means that the point did not escape.
C7_RenderStoresEscapeShade ==
    (call.fn = "render" /\ ret.done /\ call.len = call.bounds[1] * call.bounds[2]) =>
        /\ ret.val.ok
        /\ Len(ret.val.px) = call.len
        /\ \A row \in 0..(call.bounds[2] - 1) : \A col \in 0..(call.bounds[1] - 1) :
              LET v == ret.val.px[row * call.bounds[1] + col + 1]
                  point == pixel_to_point(call.bounds, <<col, row>>,
                                          call.corners[1], call.corners[2])
                  E == EscapeIndices(point, 255)
              IN  /\ E = {} => v = 0
                  /\ \A count \in E : /\ count <= 254
                                      /\ v = 255 - count
                                      /\ v \in 1..255
                                      /\ count = 0 => v = 255
                  /\ v = 0 => E = {}

\* A rendered buffer with a pixel that escapes at once, a pixel that never
\* escapes and a pixel in between.
C7_Witness ==
    /\ call.fn = "render" /\ ret.done /\ ret.val.ok
    /\ \E a, b, c \in 1..Len(ret.val.px) :
          ret.val.px[a] = 255 /\ ret.val.px[b] = 0 /\ ret.val.px[c] \in 2..254

\* ---- C9
\* The exact interpolation, times the bound it divides by: W * re and H * im
\* as integers.
ExactReTimesW(q) == q.bounds[1] * q.upper_l.re + q.pixel[1] * (q.lower_r.re - q.upper_l.re)
ExactImTimesH(q) == q.bounds[2] * q.upper_l.im - q.pixel[2] * (q.upper_l.im - q.lower_r.im)

\* C9 (as stated): pixel_to_point is the linear interpolation: pixel (0,0)
\* maps to upper_left, pixel (w,h) to lower_right, the center pixel of even
\* bounds to the average of the corners, and the tested pixel to (-0.5,-0.5).
C9_ExactInterpolation ==
    (call.fn = "pixel_to_point" /\ ret.done) =>
        /\ call.pixel = <<0, 0>> => ret.val = call.upper_l
        /\ call.pixel = call.bounds => ret.val = call.lower_r
        /\ (2 * call.pixel[1] = call.bounds[1] /\ 2 * call.pixel[2] = call.bounds[2]) =>
              /\ 2 * ret.val.re = call.upper_l.re + call.lower_r.re
              /\ 2 * ret.val.im = call.upper_l.im + call.lower_r.im
        /\ call = TestPointCall => ret.val = cmplx(-(One \div 2), -(One \div 2))

\* C9 (amended): pixel_to_point is the linear interpolation evaluated in
\* floating point.  Pixel (0,0) maps to upper_left and the tested pixel to
\* (-0.5,-0.5) exactly; every pixel within the bounds maps to within 8 units
\* in the last place (of the larger corner coordinate) of the exact
\* interpolation, which for pixel (w,h) is lower_right and for the center
\* pixel the average of the corners; and pixel (w,h) maps to lower_right
\* exactly when the corner differences and their products with the bounds
\* are representable.
C9_InterpolationUpToRounding ==
    (call.fn = "pixel_to_point" /\ ret.done) =>
        LET W == call.bounds[1]
            H == call.bounds[2]
            ulpRe == Spacing(Max(Abs(call.upper_l.re), Abs(call.lower_r.re)))
            ulpIm == Spacing(Max(Abs(call.upper_l.im), Abs(call.lower_r.im)))
            dRe == call.lower_r.re - call.upper_l.re
            dIm == call.upper_l.im - call.lower_r.im
        IN  /\ call.pixel = <<0, 0>> => ret.val = call.upper_l
            /\ call = TestPointCall => ret.val = cmplx(-(One \div 2), -(One \div 2))
            /\ Abs(W * ret.val.re - ExactReTimesW(call)) <= 8 * W * ulpRe
            /\ Abs(H * ret.val.im - ExactImTimesH(call)) <= 8 * H * ulpIm
            /\ (call.pixel = call.bounds /\ Representable(dRe) /\ Representable(W * dRe))
                  => ret.val.re = call.lower_r.re
            /\ (call.pixel = call.bounds /\ Representable(dIm) /\ Representable(H * dIm))
                  => ret.val.im = call.lower_r.im

\* The call of the unit test has returned.
C9_Witness ==
    /\ call = TestPointCall /\ ret.done
    /\ ret.val = cmplx(-(One \div 2), -(One \div 2))

\* ---- C10
\* What parse_pair is to return for T, s and the separator: the two fields
\* around the first separator, when there is one and both are numbers.
ExpectedPair(T, s, separator) ==
    IF \E k \in 1..Len(s) : s[k] = separator
    THEN LET k == CHOOSE k \in 1..Len(s) :
                     s[k] = separator /\ \A j \in 1..(k - 1) : s[j] # separator
             left == SubSeq(s, 1, k - 1)
             right == SubSeq(s, k + 1, Len(s))
         IN  IF from_str(T, left).ok /\ from_str(T, right).ok
             THEN Some(<<from_str(T, left).val, from_str(T, right).val>>)
             ELSE None
    ELSE None

C1_WriteAtEnd ==
    /\ pc = "done" => Len(file) = 1
    /\ "write_image" \in invoked =>
          /\ "render" \in invoked
          /\ pc \notin {"partition", "spawn", "join"}
          /\ \A j \in 1..Len(workers) : workers[j].state # "running"
          /\ status.msg # "chunk size must be non-zero"

\* ---- C2
\* Line 48 has been reached: chunks_mut has returned the bands or panicked.
PartitionRan ==
    \/ pc \in {"spawn", "join", "done"}
    \/ status.msg \in {"chunk size must be non-zero", "a scoped thread panicked"}

\* The rows of band i (the i-th band, from 1), as the scheduler computes
\* them: top = rows_per_band * i, height = band.len() / W.
BandRows(i) ==
    LET top == rows_per_band * (i - 1)
        height == bands[i].len \div bounds[1]
    IN  top..(top + height - 1)

\* C2: for every W > 0 and H > 0 the bands are whole rows and their row
\* ranges cover exactly rows 0..H-1 without gaps or overlaps.
C2_BandsCoverRows ==
    (PartitionRan /\ bounds[1] > 0 /\ bounds[2] > 0) =>
        /\ \A i \in 1..Len(bands) : bands[i].len % bounds[1] = 0
        /\ UNION {BandRows(i) : i \in 1..Len(bands)} = 0..(bounds[2] - 1)
        /\ \A i, j \in 1..Len(bands) : i # j => BandRows(i) \cap BandRows(j) = {}

\* ---- C3
\* C3: for every height the scheduler makes exactly THREADS + 1 = 9 bands of
\* rows_per_band = H / 9 rows, only the last one differing, and spawns
\* exactly one worker per band, so 9 workers.
C3_NineBands ==
    /\ pc \in {"spawn", "join", "done"} =>
          /\ Len(bands) = THREADS + 1
          /\ rows_per_band = bounds[2] \div (THREADS + 1)
          /\ \A i \in 1..(Len(bands) - 1) : bands[i].len = rows_per_band * bounds[1]
    /\ pc \in {"join", "done"} => Len(workers) = THREADS + 1

\* ---- C4
\* C4: the buffer the banded parallel render leaves is byte-identical to the
\* buffer one render call over the full image produces.
C4_BandedEqualsFull ==
    pc = "done" => pixels = render(Len(pixels), bounds, u_l, l_r).px

\* ---- C5
\* The band that owns buffer index k (from 1): chunk (k - 1) / chunk size.
OwnerOf(k) == ((k - 1) \div (rows_per_band * bounds[1])) + 1

\* The buffer the banded render is to leave, from the inputs alone: pixel k
\* is rendered by its band with the band's bounds and corners.
BandedPixel(k) ==
    LET W == bounds[1]
        i == OwnerOf(k) - 1
        top == rows_per_band * i
        height == Min(rows_per_band, bounds[2] - top)
        row == ((k - 1) \div W) - top
        col == (k - 1) % W
    IN  render_pixel(<<W, height>>, col, row,
                     pixel_to_point(bounds, <<0, top>>, u_l, l_r),
                     pixel_to_point(bounds, <<W, top + height>>, u_l, l_r))

\* C5: under every interleaving of the band workers no buffer index is
\* written by two workers, each worker writes only inside its own band, and
\* the buffer after the join is the same for every schedule.
C5_DisjointWrites ==
    /\ \A k \in 1..Len(writers) :
          /\ Cardinality(writers[k]) <= 1
          /\ writers[k] \subseteq {OwnerOf(k)}
    /\ \A j \in 1..Len(workers) :
          \A n \in 1..workers[j].next : writers[workers[j].band.start + n] = {j}
    /\ pc = "done" =>
          /\ \A k \in 1..Len(pixels) : writers[k] = {OwnerOf(k)}
          /\ pixels = [k \in 1..Len(pixels) |-> BandedPixel(k)]

\* Three workers are in the middle of their bands at once, a later band
\* ahead of an earlier one that has not started.
C5_Witness ==
    \E a, b, c \in 1..Len(workers) :
        /\ a < b /\ b < c
        /\ workers[a].next = 0
        /\ workers[b].next = 1 /\ workers[b].state = "running"
        /\ workers[c].next = 1 /\ workers[c].state = "running"

\* ---- C8
\* The command lines that are to be rejected: a wrong count, or a dimension
\* or corner argument that is no pair of numbers.
Rejected ==
    \/ Len(args) # 5
    \/ args[3] \in BadDims \cup {<<"x">>}
    \/ args[4] = BadCorner
    \/ args[5] = BadCorner

\* C8: a run whose input is rejected renders nothing and writes no image: a
\* wrong argument count prints the usage to standard error and exits with
\* status 1, a malformed dimension or corner aborts at once; neither render
\* nor write_image nor a band worker is ever started.
C8_RejectedRunsDoNothing ==
    Rejected =>
        /\ invoked = {}
        /\ pixels = <<>> /\ file = <<>> /\ workers = <<>> /\ bands = <<>>
        /\ pc \in {"start", "exited"}
        /\ pc = "exited" =>
              IF Len(args) # 5
              THEN status = Exit(1) /\ stderr = UsageLines(args[1])
              ELSE /\ status.kind = "panic"
                   /\ status.msg =
                        IF args[3] \in BadDims \cup {<<"x">>}
                        THEN "Error parsing image dimensions"
                        ELSE IF args[4] = BadCorner
                        THEN "Error parsing upper left corner point"
                        ELSE "Error parsing lower right corner point"

\* A run aborted by its last argument, after the first two have parsed.
C8_Witness ==
    /\ pc = "exited"
    /\ status = Panic("Error parsing lower right corner point")
====
